---- MODULE Spec2Model ----
(***************************************************************************)
(* Model of thrust/detail/backend/cuda/detail/launch_closure.inl:          *)
(* the closure launcher (by-value / by-pointer dispatch), the occupancy    *)
(* driven launch configuration, and the device-side collaborators the      *)
(* launcher drives (device memory service, device queue, diagnostic        *)
(* synchronization hook).                                                  *)
(***************************************************************************)
EXTENDS Integers, Sequences, FiniteSets, TLC

VARIABLES
  dev,          \* DeviceLimits of the device present at runtime
  syncEnabled,  \* whether the diagnostic synchronization hook is compiled in
  bufs,         \* device memory: one record per allocation ever made
  queue,        \* the device execution queue (kernels and queue-ordered frees)
  latent,       \* the device's latent (not yet reported) error
  ran,          \* the kernel the device completed most recently
  last,         \* the most recent host call to launch_closure and what it did
  ncalls,       \* number of host launch calls made so far
  query         \* the most recent call of an occupancy query and its result

vars == <<dev, syncEnabled, bufs, queue, latent, ran, last, ncalls, query>>

-----------------------------------------------------------------------------
(* Bounds of the model *)

\* width of size_t in the model (64 in the build)
WordBits == 4
\* width of unsigned int in the model (32 in the build)
UIntBits == 3
\* host launch calls per behaviour
MaxCalls == 2

-----------------------------------------------------------------------------
(* Integer helpers *)

RECURSIVE Pow2(_)
Pow2(k) == IF k = 0 THEN 1 ELSE 2 * Pow2(k - 1)

\* conversion of a non-negative value to an unsigned type of w bits
ToWidth(x, w) == x % Pow2(w)

MaxOf(w) == Pow2(w) - 1

Min2(a, b) == IF a <= b THEN a ELSE b

Max2(a, b) == IF a >= b THEN a ELSE b

RECURSIVE MinOfSet(_)
MinOfSet(S) ==
  LET x == CHOOSE y \in S : TRUE
  IN  IF S = {x} THEN x ELSE Min2(x, MinOfSet(S \ {x}))

\* the integer types the templates are instantiated with: unsigned int, size_t
Widths == {UIntBits, WordBits}

-----------------------------------------------------------------------------
(* Closures *)

\* sizeof(NullaryFunction) <= 256 selects the by-value launcher
ByValueMaxBytes == 256

ClosureSizes == {8, 256, 257}

\* a closure: its static size and its captured state; two by-value closures
\* and two by-pointer closures that differ only in their captured state
Closures ==
  { [size |-> 8, payload |-> 1], [size |-> 256, payload |-> 2],
    [size |-> 257, payload |-> 1], [size |-> 257, payload |-> 2] }

NoClosure == [size |-> 0, payload |-> 0]

\* what a read of unallocated device memory yields
Garbage == [size |-> 0, payload |-> 99]

EntryPoints == {"launch_closure_by_value", "launch_closure_by_pointer"}

-----------------------------------------------------------------------------
(* Dispatch: closure_launcher_base<NullaryFunction, launch_by_value> *)

\* variant: the threshold itself is dispatched by pointer
launch_by_value_strict(size) == size < ByValueMaxBytes

\* the default template argument launch_by_value = sizeof(NullaryFunction) <= 256
launch_by_value(size) == size <= ByValueMaxBytes

\* closure_launcher_base<...>::get_launch_function of the selected specialization
get_launch_function(size) ==
  IF launch_by_value(size) THEN "launch_closure_by_value"
                           ELSE "launch_closure_by_pointer"

-----------------------------------------------------------------------------
(* Device limits and kernel footprints (arch.h: device_properties,         *)
(* function_attributes, max_active_blocks,                                 *)
(* max_blocksize_with_highest_occupancy)                                   *)

Devices ==
  { [warp |-> 2, maxThreadsPerBlock |-> 4, maxBlocksPerMP |-> 2,
     maxThreadsPerMP |-> 4, regsPerMP |-> 8, smemPerMP |-> 4, mpCount |-> 1],
    [warp |-> 2, maxThreadsPerBlock |-> 4, maxBlocksPerMP |-> 2,
     maxThreadsPerMP |-> 8, regsPerMP |-> 16, smemPerMP |-> 4, mpCount |-> 2] }

\* registers per thread and static shared memory per block of an entry point
function_attributes(entry) ==
  IF entry = "launch_closure_by_value" THEN [regs |-> 1, smem |-> 0]
                                       ELSE [regs |-> 3, smem |-> 1]

\* blocks of block_size threads that can be resident on one multiprocessor
blocks_per_mp(d, entry, block_size, dyn_smem) ==
  LET fp   == function_attributes(entry)
      regs == fp.regs * block_size
      smem == fp.smem + dyn_smem
  IN  IF block_size = 0 THEN 0
      ELSE MinOfSet({ d.maxBlocksPerMP,
                      d.maxThreadsPerMP \div block_size,
                      IF regs = 0 THEN d.maxBlocksPerMP ELSE d.regsPerMP \div regs,
                      IF smem = 0 THEN d.maxBlocksPerMP ELSE d.smemPerMP \div smem })

\* device-wide number of concurrently resident blocks at a fixed block size
max_active_blocks(d, entry, block_size, dyn_smem_per_block) ==
  blocks_per_mp(d, entry, block_size, dyn_smem_per_block) * d.mpCount

\* the candidate block sizes: multiples of the scheduling granularity
CandidateBlockSizes(d) ==
  { k * d.warp : k \in 1..(d.maxThreadsPerBlock \div d.warp) }

OccupiedThreads(d, entry, bs, smem_per_thread) ==
  blocks_per_mp(d, entry, bs, smem_per_thread * bs) * bs

\* the block size with most occupied threads, ties broken by the larger size
max_blocksize_with_highest_occupancy(d, entry, smem_per_thread) ==
  CHOOSE bs \in CandidateBlockSizes(d) :
    \A other \in CandidateBlockSizes(d) :
      \/ OccupiedThreads(d, entry, other, smem_per_thread)
           < OccupiedThreads(d, entry, bs, smem_per_thread)
      \/ /\ OccupiedThreads(d, entry, other, smem_per_thread)
              = OccupiedThreads(d, entry, bs, smem_per_thread)
         /\ other <= bs

-----------------------------------------------------------------------------
(* closure_launcher: the launch configuration *)

\* variant: the block count at the largest block size is returned as the size
block_size_as_block_count(d, size, dynamic_smem_bytes_per_thread) ==
  max_active_blocks(d, get_launch_function(size), d.maxThreadsPerBlock,
                    dynamic_smem_bytes_per_thread)

block_size_with_maximal_occupancy(d, size, dynamic_smem_bytes_per_thread) ==
  max_blocksize_with_highest_occupancy(d, get_launch_function(size),
                                       dynamic_smem_bytes_per_thread)

\* variant: the quotient n / block_size is rounded down
num_blocks_floor(d, size, n, wn, block_size, wb, smem) ==
  LET max_blocks == max_active_blocks(d, get_launch_function(size), block_size,
                                      smem)
      wl == Max2(wn, wb)
  IN  ToWidth(Min2(ToWidth(max_blocks, wl), ToWidth(n, wl) \div block_size),
              WordBits)

\* variant: the ceiling quotient is returned without the clamp
num_blocks_unclamped(d, size, n, wn, block_size, wb, smem) ==
  LET wl  == Max2(wn, wb)
      sum == ToWidth(n + ToWidth(block_size - 1, wl), wl)
  IN  ToWidth(sum \div block_size, WordBits)

\* n is of type Size1 (wn bits), block_size of type Size2 (wb bits), both
\* unsigned; large_integer is the larger of the two.  The sum n + (block_size
\* - 1) is computed in large_integer and wraps modulo 2^wl; max_blocks is
\* converted to large_integer by thrust::min<large_integer>; the result is
\* converted to size_t.
num_blocks_with_maximal_occupancy(d, size, n, wn, block_size, wb, smem) ==
  LET max_blocks == max_active_blocks(d, get_launch_function(size), block_size,
                                      smem)
      wl     == Max2(wn, wb)
      sum    == ToWidth(n + ToWidth(block_size - 1, wl), wl)
      result == Min2(ToWidth(max_blocks, wl), sum \div block_size)
  IN  ToWidth(result, WordBits)

\* variant: the footprint of the by-value entry point is used for every closure
configuration_by_value_footprint(d, size, n, wn) ==
  LET block_size == block_size_with_maximal_occupancy(d, 1, 0)
      num_blocks == num_blocks_with_maximal_occupancy(d, 1, n, wn, block_size,
                                                      WordBits, 0)
  IN  <<num_blocks, block_size>>

\* block_size is a size_t and 0u an unsigned int; n is of type Size (wn bits)
configuration_with_maximal_occupancy(d, size, n, wn) ==
  LET block_size == block_size_with_maximal_occupancy(d, size, 0)
      num_blocks == num_blocks_with_maximal_occupancy(d, size, n, wn, block_size,
                                                      WordBits, 0)
  IN  <<num_blocks, block_size>>

-----------------------------------------------------------------------------
(* The device as the launcher sees it.  A machine state m carries the      *)
(* device memory, the device queue, the latent error, the last completed   *)
(* kernel, the effects the running host call has had so far, and the       *)
(* exception it has raised ("none" while it runs normally).                *)

Machine(b, q, l, r) ==
  [bufs |-> b, queue |-> q, latent |-> l, ran |-> r, effects |-> <<>>,
   raised |-> "none", probes |-> 0]

NoRun == [entry |-> "none", seen |-> NoClosure]

\* what the invocations of a queued kernel read as their closure
SeenBy(b, item) ==
  IF item.entry = "launch_closure_by_value" THEN item.f
  ELSE IF item.buf \notin DOMAIN b THEN Garbage
  ELSE IF b[item.buf].state = "freed" THEN Garbage
  ELSE b[item.buf].content

\* the device completes the item at the head of its queue: a kernel's
\* invocations run (launch_closure_by_value: f(); launch_closure_by_pointer:
\* f_reg = *f; f_reg()), a queued free releases its buffer
RunItem(m, item) ==
  IF item.op = "kernel"
  THEN [m EXCEPT !.ran = [entry |-> item.entry, seen |-> SeenBy(m.bufs, item)]]
  ELSE [m EXCEPT !.bufs[item.buf].state = "freed"]

RECURSIVE Drain(_, _)
Drain(m, q) ==
  IF q = <<>> THEN [m EXCEPT !.queue = <<>>]
  ELSE Drain(RunItem(m, Head(q)), Tail(q))

\* thrust::detail::backend::cuda::malloc<0>(bytes): a fresh buffer, or the
\* service is out of device memory and the call throws
cuda_malloc(m, bytes, ok) ==
  IF ok
  THEN [m EXCEPT !.bufs = Append(@, [state |-> "live", content |-> NoClosure,
                                     bytes |-> bytes]),
                 !.effects = Append(@, [e |-> "malloc", bytes |-> bytes,
                                        buf |-> Len(m.bufs) + 1])]
  ELSE [m EXCEPT !.effects = Append(@, [e |-> "malloc", bytes |-> bytes, buf |-> 0]),
                 !.raised = "OutOfDeviceMemory"]

\* *f_ptr = f : the host writes the closure into the buffer
device_write(m, buf, f) ==
  [m EXCEPT !.bufs[buf].content = f,
            !.effects = Append(@, [e |-> "write", buf |-> buf, f |-> f])]

\* the device runtime's check of a launch configuration at submission
LaunchError(d, entry, grid, block, smem) ==
  IF grid = 0 \/ block = 0 \/ block > d.maxThreadsPerBlock \/ smem > d.smemPerMP
  THEN "InvalidLaunchConfiguration"
  ELSE IF function_attributes(entry).regs * block > d.regsPerMP
  THEN "LaunchOutOfResources"
  ELSE "none"

\* kernel<<<(unsigned int) num_blocks, (unsigned int) block_size,
\*          (unsigned int) smem_size>>>(arg): the three sizes are converted to
\* unsigned int; a configuration the device rejects leaves a latent error and
\* enqueues nothing
kernel_submit(m, d, entry, num_blocks, block_size, smem_size, f, buf) ==
  LET grid  == ToWidth(num_blocks, UIntBits)
      block == ToWidth(block_size, UIntBits)
      smem  == ToWidth(smem_size, UIntBits)
      err   == LaunchError(d, entry, grid, block, smem)
      eff   == [e |-> "submit", entry |-> entry, grid |-> grid, block |-> block,
                smem |-> smem, f |-> f, buf |-> buf, error |-> err]
      item  == [op |-> "kernel", entry |-> entry, grid |-> grid, block |-> block,
                smem |-> smem, f |-> f, buf |-> buf]
  IN  IF err # "none"
      THEN [m EXCEPT !.latent = IF @ = "none" THEN err ELSE @,
                     !.effects = Append(@, eff)]
      ELSE [m EXCEPT !.queue = Append(@, item), !.effects = Append(@, eff)]

\* synchronize_if_enabled(label): a no-op unless the hook is compiled in; else
\* the host waits until the queue has drained and throws on a latent error
synchronize_if_enabled(m, enabled, label) ==
  IF ~enabled THEN m
  ELSE LET m1 == Drain(m, m.queue)
           m2 == [m1 EXCEPT !.effects = Append(@, [e |-> "sync", label |-> label,
                                                    error |-> m1.latent])]
       IN  IF m2.latent = "none" THEN m2
           ELSE [m2 EXCEPT !.raised = m2.latent, !.latent = "none"]

\* thrust::detail::backend::cuda::free<0>(ptr): the release is ordered on the
\* device queue after the work submitted before it
cuda_free(m, buf) ==
  [m EXCEPT !.bufs[buf].state = "freeing",
            !.queue = Append(@, [op |-> "free", buf |-> buf]),
            !.effects = Append(@, [e |-> "free", buf |-> buf])]

-----------------------------------------------------------------------------
(* closure_launcher_base<NullaryFunction, true>::launch and                *)
(* closure_launcher_base<NullaryFunction, false>::launch                   *)

\* variant: the synchronization hook is not called
launch_base_by_value_nosync(m, d, enabled, f, num_blocks, block_size, smem_size) ==
  kernel_submit(m, d, "launch_closure_by_value", num_blocks, block_size,
                smem_size, f, 0)

launch_base_by_value(m, d, enabled, f, num_blocks, block_size, smem_size) ==
  synchronize_if_enabled(
    kernel_submit(m, d, "launch_closure_by_value", num_blocks, block_size,
                  smem_size, f, 0),
    enabled, "launch_closure_by_value")

\* variant: the allocation's failure is noticed only after the submission
launch_base_by_pointer_unchecked(m, d, enabled, f, num_blocks, block_size, smem_size, ok) ==
  LET m1 == cuda_malloc(m, f.size, ok)
      f_ptr == m1.effects[Len(m1.effects)].buf
      m2 == IF ok THEN device_write(m1, f_ptr, f) ELSE m1
      m3 == kernel_submit(m2, d, "launch_closure_by_pointer", num_blocks,
                          block_size, smem_size, NoClosure, f_ptr)
      m4 == synchronize_if_enabled(m3, enabled, "launch_closure_by_pointer")
  IN  IF m4.raised # "none" THEN m4
      ELSE cuda_free(m4, f_ptr)

\* variant: an error the synchronization hook raises is caught and dropped
launch_base_by_pointer_swallow(m, d, enabled, f, num_blocks, block_size, smem_size, ok) ==
  LET m1 == cuda_malloc(m, f.size, ok)
  IN  IF m1.raised # "none" THEN m1
      ELSE LET f_ptr == m1.effects[Len(m1.effects)].buf
               m2 == device_write(m1, f_ptr, f)
               m3 == kernel_submit(m2, d, "launch_closure_by_pointer", num_blocks,
                                   block_size, smem_size, NoClosure, f_ptr)
               m4 == synchronize_if_enabled(m3, enabled, "launch_closure_by_pointer")
           IN  cuda_free([m4 EXCEPT !.raised = "none"], f_ptr)

\* variant: the closure is not copied into the buffer
launch_base_by_pointer_no_copy(m, d, enabled, f, num_blocks, block_size, smem_size, ok) ==
  LET m1 == cuda_malloc(m, f.size, ok)
  IN  IF m1.raised # "none" THEN m1
      ELSE LET f_ptr == m1.effects[Len(m1.effects)].buf
               m3 == kernel_submit(m1, d, "launch_closure_by_pointer", num_blocks,
                                   block_size, smem_size, NoClosure, f_ptr)
               m4 == synchronize_if_enabled(m3, enabled, "launch_closure_by_pointer")
           IN  IF m4.raised # "none" THEN m4
               ELSE cuda_free(m4, f_ptr)

\* variant: the buffer is freed before the kernel is submitted
launch_base_by_pointer_free_first(m, d, enabled, f, num_blocks, block_size, smem_size, ok) ==
  LET m1 == cuda_malloc(m, f.size, ok)
  IN  IF m1.raised # "none" THEN m1
      ELSE LET f_ptr == m1.effects[Len(m1.effects)].buf
               m2 == device_write(m1, f_ptr, f)
               m3 == cuda_free(m2, f_ptr)
               m4 == kernel_submit(m3, d, "launch_closure_by_pointer", num_blocks,
                                   block_size, smem_size, NoClosure, f_ptr)
           IN  synchronize_if_enabled(m4, enabled, "launch_closure_by_pointer")

\* variant: the closure is written into the buffer after the submission
launch_base_by_pointer_late_write(m, d, enabled, f, num_blocks, block_size, smem_size, ok) ==
  LET m1 == cuda_malloc(m, f.size, ok)
  IN  IF m1.raised # "none" THEN m1
      ELSE LET f_ptr == m1.effects[Len(m1.effects)].buf
               m2 == kernel_submit(m1, d, "launch_closure_by_pointer", num_blocks,
                                   block_size, smem_size, NoClosure, f_ptr)
               m3 == device_write(m2, f_ptr, f)
               m4 == synchronize_if_enabled(m3, enabled, "launch_closure_by_pointer")
           IN  IF m4.raised # "none" THEN m4
               ELSE cuda_free(m4, f_ptr)

launch_base_by_pointer(m, d, enabled, f, num_blocks, block_size, smem_size, ok) ==
  LET m1 == cuda_malloc(m, f.size, ok)
  IN  IF m1.raised # "none" THEN m1
      ELSE LET f_ptr == m1.effects[Len(m1.effects)].buf
               m2 == device_write(m1, f_ptr, f)
               m3 == kernel_submit(m2, d, "launch_closure_by_pointer", num_blocks,
                                   block_size, smem_size, NoClosure, f_ptr)
               m4 == synchronize_if_enabled(m3, enabled, "launch_closure_by_pointer")
           IN  IF m4.raised # "none" THEN m4
               ELSE cuda_free(m4, f_ptr)

\* variant: every closure goes through a device buffer
super_launch_always_by_pointer(m, d, enabled, f, num_blocks, block_size, smem_size, ok) ==
  launch_base_by_pointer(m, d, enabled, f, num_blocks, block_size, smem_size, ok)

\* super_t::launch: the specialization the closure's size selects
super_launch(m, d, enabled, f, num_blocks, block_size, smem_size, ok) ==
  IF launch_by_value(f.size)
  THEN launch_base_by_value(m, d, enabled, f, num_blocks, block_size, smem_size)
  ELSE launch_base_by_pointer(m, d, enabled, f, num_blocks, block_size, smem_size, ok)

\* closure_launcher::launch(f, n); probes counts the occupancy computations
\* the call makes on the device-limit and kernel-footprint services
\* (block_size_with_maximal_occupancy and num_blocks_with_maximal_occupancy)
launch_n(m, d, enabled, f, n, wn, ok) ==
  LET config == configuration_with_maximal_occupancy(d, f.size, n, wn)
  IN  super_launch([m EXCEPT !.probes = @ + 2], d, enabled, f, config[1],
                   config[2], 0, ok)

\* closure_launcher::launch(f, num_blocks, block_size, smem_size)
launch_geometry(m, d, enabled, f, num_blocks, block_size, smem_size, ok) ==
  super_launch(m, d, enabled, f, num_blocks, block_size, smem_size, ok)

-----------------------------------------------------------------------------
(* The launch system: host calls and the device's own progress *)

\* problem sizes passed to launch_closure(f, n), n a size_t
ProblemSizes == {0, 1, 5, MaxOf(WordBits)}

\* caller-specified geometry passed to launch_closure(f, num_blocks, block_size[, smem])
GridSizes == {0, 2, Pow2(UIntBits) + 1}

BlockSizes == {2, 6}

SmemSizes == {0, 1}

NoCall ==
  [op |-> "none", f |-> NoClosure, n |-> 0, num_blocks |-> 0, block_size |-> 0,
   smem_size |-> 0, effects |-> <<>>, result |-> "none", probes |-> 0]

NoQuery ==
  [op |-> "none", size |-> 0, n |-> 0, wn |-> 0, block_size |-> 0, wb |-> 0,
   smem |-> 0, done |-> FALSE, result |-> 0]

Init ==
  /\ dev \in Devices
  /\ syncEnabled \in BOOLEAN
  /\ bufs = <<>>
  /\ queue = <<>>
  /\ latent = "none"
  /\ ran = NoRun
  /\ last = NoCall
  /\ ncalls = 0
  /\ query = NoQuery

Result(m) == IF m.raised = "none" THEN "ok" ELSE m.raised

Commit(m, call) ==
  /\ bufs' = m.bufs
  /\ queue' = m.queue
  /\ latent' = m.latent
  /\ ran' = m.ran
  /\ last' = [call EXCEPT !.effects = m.effects, !.result = Result(m),
                          !.probes = m.probes]
  /\ ncalls' = ncalls + 1
  /\ UNCHANGED <<dev, syncEnabled, query>>

\* launch_closure(f, n)
LaunchN(f, n, ok) ==
  /\ ncalls < MaxCalls
  /\ LET config == configuration_with_maximal_occupancy(dev, f.size, n, WordBits)
     IN  Commit(launch_n(Machine(bufs, queue, latent, ran), dev, syncEnabled, f, n,
                         WordBits, ok),
                [NoCall EXCEPT !.op = "launch_n", !.f = f, !.n = n,
                               !.num_blocks = config[1], !.block_size = config[2]])

\* launch_closure(f, num_blocks, block_size, smem_size)
LaunchGeometry(f, num_blocks, block_size, smem_size, ok) ==
  /\ ncalls < MaxCalls
  /\ Commit(launch_geometry(Machine(bufs, queue, latent, ran), dev, syncEnabled, f,
                            num_blocks, block_size, smem_size, ok),
            [NoCall EXCEPT !.op = "launch_geometry", !.f = f,
                           !.num_blocks = num_blocks, !.block_size = block_size,
                           !.smem_size = smem_size])

\* launch_closure(f, num_blocks, block_size): forwards with smem_size = 0u
LaunchGeometry3(f, num_blocks, block_size, ok) ==
  /\ ncalls < MaxCalls
  /\ Commit(launch_geometry(Machine(bufs, queue, latent, ran), dev, syncEnabled, f,
                            num_blocks, block_size, 0, ok),
            [NoCall EXCEPT !.op = "launch_geometry3", !.f = f,
                           !.num_blocks = num_blocks, !.block_size = block_size])

\* the device completes the work at the head of its queue
DeviceStep ==
  /\ queue # <<>>
  /\ LET m == RunItem(Machine(bufs, Tail(queue), latent, ran), Head(queue))
     IN  /\ bufs' = m.bufs
         /\ queue' = m.queue
         /\ ran' = m.ran
  /\ UNCHANGED <<dev, syncEnabled, latent, last, ncalls, query>>

\* a later synchronization point (cuda::synchronize): the host waits until the
\* queue has drained and a latent device error is raised there
Synchronize ==
  /\ ncalls < MaxCalls
  /\ Commit(synchronize_if_enabled(Machine(bufs, queue, latent, ran), TRUE,
                                    "synchronize"),
            [NoCall EXCEPT !.op = "synchronize"])

\* the device memory service can fail only the calls that reach it
AllocOutcomes(f) == IF launch_by_value(f.size) THEN {TRUE} ELSE BOOLEAN

Next ==
  \/ \E f \in Closures, n \in ProblemSizes :
        \E ok \in AllocOutcomes(f) : LaunchN(f, n, ok)
  \/ \E f \in Closures, nb \in GridSizes, bs \in BlockSizes, sm \in SmemSizes :
        \E ok \in AllocOutcomes(f) : LaunchGeometry(f, nb, bs, sm, ok)
  \/ \E f \in Closures, nb \in GridSizes, bs \in BlockSizes :
        \E ok \in AllocOutcomes(f) : LaunchGeometry3(f, nb, bs, ok)
  \/ Synchronize
  \/ DeviceStep

Spec == Init /\ [][Next]_vars

-----------------------------------------------------------------------------
(* The occupancy queries as pure functions: the inputs of one call are     *)
(* drawn in the initial state and the call is applied to them.             *)

SmemQueries == {0, 1, 3}

\* num_blocks_with_maximal_occupancy<NullaryFunction>(n, block_size, smem):
\* n any value of Size1, block_size any value >= 1 of Size2
NumBlocksQueries ==
  { [NoQuery EXCEPT !.op = "num_blocks", !.size = sz, !.n = a[2], !.wn = a[1],
                    !.block_size = b[2], !.wb = b[1], !.smem = sm] :
      sz \in ClosureSizes, sm \in SmemQueries,
      a \in { p \in Widths \X (0..MaxOf(WordBits)) : p[2] <= MaxOf(p[1]) },
      b \in { p \in Widths \X (1..MaxOf(WordBits)) : p[2] <= MaxOf(p[1]) } }

\* block_size_with_maximal_occupancy<NullaryFunction>(smem_per_thread)
BlockSizeQueries ==
  { [NoQuery EXCEPT !.op = "block_size", !.size = sz, !.smem = sm] :
      sz \in ClosureSizes, sm \in SmemQueries }

\* closure_launcher<NullaryFunction>::configuration_with_maximal_occupancy(n)
ConfigurationQueries ==
  { [NoQuery EXCEPT !.op = "configuration", !.size = sz, !.n = a[2], !.wn = a[1],
                    !.wb = WordBits] :
      sz \in ClosureSizes,
      a \in { p \in Widths \X (0..MaxOf(WordBits)) : p[2] <= MaxOf(p[1]) } }

\* the devices the queries are asked on: also one whose maximum block size is
\* no multiple of its scheduling granularity, and one on which the by-pointer
\* kernel's registers leave no block resident
OccDevices ==
  Devices \cup
  { [warp |-> 3, maxThreadsPerBlock |-> 8, maxBlocksPerMP |-> 3,
     maxThreadsPerMP |-> 12, regsPerMP |-> 24, smemPerMP |-> 6, mpCount |-> 2],
    [warp |-> 4, maxThreadsPerBlock |-> 8, maxBlocksPerMP |-> 1,
     maxThreadsPerMP |-> 8, regsPerMP |-> 8, smemPerMP |-> 2, mpCount |-> 1] }

OccInit ==
  /\ dev \in OccDevices
  /\ syncEnabled = FALSE
  /\ bufs = <<>>
  /\ queue = <<>>
  /\ latent = "none"
  /\ ran = NoRun
  /\ last = NoCall
  /\ ncalls = 0
  /\ query \in NumBlocksQueries \cup BlockSizeQueries \cup ConfigurationQueries

CallNumBlocks ==
  /\ query.op = "num_blocks" /\ ~query.done
  /\ query' = [query EXCEPT !.done = TRUE,
                 !.result = num_blocks_with_maximal_occupancy(
                              dev, query.size, query.n, query.wn,
                              query.block_size, query.wb, query.smem)]
  /\ UNCHANGED <<dev, syncEnabled, bufs, queue, latent, ran, last, ncalls>>

CallBlockSize ==
  /\ query.op = "block_size" /\ ~query.done
  /\ query' = [query EXCEPT !.done = TRUE,
                 !.result = block_size_with_maximal_occupancy(dev, query.size,
                                                              query.smem)]
  /\ UNCHANGED <<dev, syncEnabled, bufs, queue, latent, ran, last, ncalls>>

CallConfiguration ==
  /\ query.op = "configuration" /\ ~query.done
  /\ LET config == configuration_with_maximal_occupancy(dev, query.size, query.n,
                                                        query.wn)
     IN  query' = [query EXCEPT !.done = TRUE, !.result = config[1],
                                !.block_size = config[2]]
  /\ UNCHANGED <<dev, syncEnabled, bufs, queue, latent, ran, last, ncalls>>

OccNext == CallNumBlocks \/ CallBlockSize \/ CallConfiguration

OccSpec == OccInit /\ [][OccNext]_vars

-----------------------------------------------------------------------------
(* Properties of the launch system (checked under Spec) *)

EffectNames(call) == [i \in 1..Len(call.effects) |-> call.effects[i].e]

Submits(call) == { i \in 1..Len(call.effects) : call.effects[i].e = "submit" }

IsLaunch(call) == call.op \in {"launch_n", "launch_geometry", "launch_geometry3"}

\* C1: the dispatch path of every launch is decided by the closure's size
\* alone: a closure of at most 256 bytes is passed by value as the kernel
\* argument and the device memory service is not used; a closure of more than
\* 256 bytes goes through a device buffer and every submission passes that
\* buffer to the by-pointer entry point.
C1_DispatchBySize ==
  IsLaunch(last) =>
    /\ last.f.size <= 256 =>
         /\ last.effects # <<>>
         /\ last.effects[1].e = "submit"
         /\ last.effects[1].entry = "launch_closure_by_value"
         /\ last.effects[1].f = last.f
         /\ "malloc" \notin { last.effects[i].e : i \in 1..Len(last.effects) }
    /\ last.f.size > 256 =>
         /\ last.effects # <<>>
         /\ last.effects[1].e = "malloc"
         /\ \A i \in Submits(last) :
              /\ last.effects[i].entry = "launch_closure_by_pointer"
              /\ last.effects[i].buf = last.effects[1].buf
              /\ last.effects[i].buf # 0

C1_Witness ==
  /\ IsLaunch(last)
  /\ last.f.size = 256
  /\ last.effects # <<>>
  /\ last.effects[1].e = "submit"
  /\ last.effects[1].entry = "launch_closure_by_value"

\* C2: a launch whose allocation fails raises OutOfDeviceMemory to its caller
\* and has no device-side effect: nothing is written, submitted, synchronized
\* or freed, and the device memory, the queue, the latent error and the work
\* the device has completed are as before the call.
C2_AllocFailureHasNoEffect ==
  [][ (/\ ncalls' = ncalls + 1
       /\ last'.effects # <<>>
       /\ last'.effects[1].e = "malloc"
       /\ last'.effects[1].buf = 0) =>
        /\ last'.result = "OutOfDeviceMemory"
        /\ last'.effects = <<[e |-> "malloc", bytes |-> last'.f.size, buf |-> 0]>>
        /\ bufs' = bufs
        /\ queue' = queue
        /\ latent' = latent
        /\ ran' = ran ]_vars

C2_Witness ==
  /\ last.result = "OutOfDeviceMemory"
  /\ last.f.size > 256
  /\ ncalls = 2
  /\ queue # <<>>

\* C3 (as claimed): after any sequence of launch calls no transient buffer
\* remains allocated without its free having been issued.
C3_NoBufferLeak == \A b \in DOMAIN bufs : bufs[b].state # "live"

\* C4: with the synchronization hook disabled, no kernel that is still on the
\* device queue reads a buffer that has been freed: the free of a launch's
\* buffer takes effect only after that launch's kernel has completed.
C4_NoFreeWhileKernelPending ==
  ~syncEnabled =>
    \A k \in DOMAIN queue :
      (queue[k].op = "kernel" /\ queue[k].entry = "launch_closure_by_pointer")
      => /\ queue[k].buf \in DOMAIN bufs
         /\ bufs[queue[k].buf].state # "freed"
         /\ \A j \in DOMAIN queue :
              (queue[j].op = "free" /\ queue[j].buf = queue[k].buf) => k < j

C4_Witness ==
  /\ ~syncEnabled
  /\ Len(queue) >= 2
  /\ queue[1].op = "kernel"
  /\ queue[1].entry = "launch_closure_by_pointer"
  /\ queue[2].op = "free"
  /\ queue[2].buf = queue[1].buf
  /\ bufs[queue[1].buf].state = "freeing"

\* C8 (as claimed): every configuration launch(closure, n) derives and submits
\* has at least one block.
C8_PositiveNumBlocks ==
  (last.op = "launch_n" /\ Submits(last) # {}) =>
    /\ last.num_blocks >= 1
    /\ \A i \in Submits(last) : last.effects[i].grid >= 1

\* C9 (as claimed): when the configuration launch(closure, n) derives violates
\* the device's limits, the call reports InvalidLaunchConfiguration and
\* submits nothing.
C9_InvalidConfigurationReported ==
  (/\ last.op = "launch_n"
   /\ last.result # "OutOfDeviceMemory"
   /\ LaunchError(dev, get_launch_function(last.f.size), last.num_blocks,
                  last.block_size, 0) = "InvalidLaunchConfiguration")
  => /\ last.result = "InvalidLaunchConfiguration"
     /\ Submits(last) = {}

\* C10: a by-pointer launch that returns normally has had exactly these
\* effects in this order: one allocation of sizeof(Closure) bytes, one write
\* of the closure into the allocated buffer, one submission that receives
\* that buffer, (the synchronization when the hook is active,) one free of
\* that buffer; the buffer is the newest allocation, not one of an earlier
\* launch.
C10_ByPointerEffectsInOrder ==
  (IsLaunch(last) /\ last.f.size > 256 /\ last.result = "ok") =>
    LET eff == last.effects
        b   == eff[1].buf
    IN  /\ EffectNames(last) =
             IF syncEnabled THEN <<"malloc", "write", "submit", "sync", "free">>
                            ELSE <<"malloc", "write", "submit", "free">>
        /\ eff[1].bytes = last.f.size
        /\ b = Len(bufs)
        /\ eff[2].buf = b /\ eff[2].f = last.f
        /\ eff[3].buf = b /\ eff[3].entry = "launch_closure_by_pointer"
        /\ eff[Len(eff)].buf = b
        /\ bufs[b].content = last.f
        /\ bufs[b].state # "live"

C10_Witness ==
  /\ IsLaunch(last)
  /\ last.f.size > 256
  /\ last.result = "ok"
  /\ ncalls = 2
  /\ Len(bufs) = 2
  /\ last.effects[1].buf = 2
  /\ bufs[1].content # bufs[2].content

-----------------------------------------------------------------------------
(* Further properties of the launch system (checked under Spec) *)

\* the device errors the submissions of a call ran into
SubmitErrors(call) ==
  { call.effects[i].error : i \in Submits(call) } \ {"none"}

KernelsQueued == { k \in DOMAIN queue : queue[k].op = "kernel" }

\* C11: a device error found at submission is raised by the launch call if
\* and only if the synchronization hook is active; with the hook disabled the
\* call returns normally and the error stays recorded on the device, and a
\* recorded error disappears only by being raised at a synchronization point.
C11_LaunchErrorRaisedIffHook ==
  /\ [](IsLaunch(last) =>
          /\ (SubmitErrors(last) # {} /\ syncEnabled)
               => last.result \in SubmitErrors(last)
          /\ (SubmitErrors(last) # {} /\ ~syncEnabled)
               => (last.result = "ok" /\ latent # "none")
          /\ last.result \notin {"ok", "OutOfDeviceMemory"}
               => (syncEnabled /\ last.result \in SubmitErrors(last)))
  /\ [][ (latent # "none" /\ latent' # latent) =>
           (ncalls' = ncalls + 1 /\ last'.result = latent) ]_vars

C11_Witness ==
  /\ ~syncEnabled
  /\ last.op = "synchronize"
  /\ last.result = "InvalidLaunchConfiguration"
  /\ latent = "none"
  /\ ncalls = 2

IsGeometryLaunch(call) == call.op \in {"launch_geometry", "launch_geometry3"}

\* C12 (as claimed): a launch with caller-specified geometry makes no
\* occupancy computation and submits exactly the caller's num_blocks,
\* block_size and smem_bytes, the three-argument form with smem_bytes = 0.
C12_GeometrySubmittedAsGiven ==
  IsGeometryLaunch(last) =>
    /\ last.probes = 0
    /\ last.op = "launch_geometry3" => last.smem_size = 0
    /\ \A i \in Submits(last) :
         /\ last.effects[i].grid = last.num_blocks
         /\ last.effects[i].block = last.block_size
         /\ last.effects[i].smem = last.smem_size

\* What does hold of a launch with caller-specified geometry: no occupancy
\* computation, and the caller's three sizes are submitted as converted to
\* unsigned int.
GeometrySubmittedModuloConversion ==
  IsGeometryLaunch(last) =>
    /\ last.probes = 0
    /\ last.op = "launch_geometry3" => last.smem_size = 0
    /\ \A i \in Submits(last) :
         /\ last.effects[i].grid = ToWidth(last.num_blocks, UIntBits)
         /\ last.effects[i].block = ToWidth(last.block_size, UIntBits)
         /\ last.effects[i].smem = ToWidth(last.smem_size, UIntBits)

\* C20 (as claimed): the grid size, block size and shared-memory size handed
\* to the device queue equal the values the launcher received or derived.
C20_NoTruncationAtSubmission ==
  IsLaunch(last) =>
    \A i \in Submits(last) :
      /\ last.effects[i].grid = last.num_blocks
      /\ last.effects[i].block = last.block_size
      /\ last.effects[i].smem = last.smem_size

\* the kernel the last launch submitted has completed on the device
LastKernelCompleted ==
  /\ IsLaunch(last)
  /\ \E i \in Submits(last) : last.effects[i].error = "none"
  /\ KernelsQueued = {}

\* C13: whichever way a closure is dispatched, the invocations of its kernel
\* run the operation on the captured state the host passed to launch: on the
\* by-pointer path the local copy read from the buffer equals that closure,
\* as does the argument on the by-value path.
C13_InvocationsSeeTheLaunchedClosure ==
  LastKernelCompleted =>
    /\ ran.seen = last.f
    /\ \A i \in Submits(last) : ran.entry = last.effects[i].entry

C13_Witness ==
  /\ LastKernelCompleted
  /\ last.f.size > 256
  /\ ran.entry = "launch_closure_by_pointer"
  /\ ran.seen = last.f
  /\ Len(bufs) = 2
  /\ bufs[1].content # last.f

\* C16: a by-value launch makes exactly one submission, followed by the
\* synchronization when the hook is active, and never calls the device
\* memory service: it neither allocates nor frees and cannot fail with
\* OutOfDeviceMemory.
C16_ByValueUsesNoDeviceMemory ==
  (IsLaunch(last) /\ last.f.size <= 256) =>
    /\ EffectNames(last) = IF syncEnabled THEN <<"submit", "sync">>
                                          ELSE <<"submit">>
    /\ last.effects[1].buf = 0
    /\ last.result # "OutOfDeviceMemory"

C16_Witness ==
  /\ IsLaunch(last)
  /\ last.f.size <= 256
  /\ last.result = "ok"
  /\ ncalls = 2
  /\ Len(bufs) = 1

\* C17: with the synchronization hook active no kernel is left on the device
\* queue when a launch call is over, and a launch that returns normally
\* returns after its own kernel has completed.
C17_HookDrainsQueueBeforeReturn ==
  syncEnabled =>
    /\ KernelsQueued = {}
    /\ (IsLaunch(last) /\ last.result = "ok") =>
         /\ ran.seen = last.f
         /\ ran.entry = get_launch_function(last.f.size)

C17_Witness ==
  /\ syncEnabled
  /\ IsLaunch(last)
  /\ last.result = "ok"
  /\ ran.seen = last.f
  /\ ncalls = 2

\* C17 (hook disabled): a launch can have returned while its kernel is still
\* on the device queue.
ReturnedWhilePending ==
  /\ ~syncEnabled
  /\ IsLaunch(last)
  /\ last.result = "ok"
  /\ KernelsQueued # {}

\* C18: launch(closure, n) submits with zero dynamic shared memory, to the
\* entry point the closure's size selects, and the block size and block count
\* it submits are the ones derived from the footprint of that same entry
\* point.
C18_ConfigurationOfSubmittedEntryPoint ==
  last.op = "launch_n" =>
    \A i \in Submits(last) :
      LET eff == last.effects[i]
      IN  /\ eff.smem = 0
          /\ eff.entry = IF last.f.size <= 256 THEN "launch_closure_by_value"
                                               ELSE "launch_closure_by_pointer"
          /\ eff.block = max_blocksize_with_highest_occupancy(dev, eff.entry, 0)
          /\ eff.grid =
               Min2(max_active_blocks(dev, eff.entry, eff.block, 0),
                    ToWidth(last.n + (eff.block - 1), WordBits) \div eff.block)

C18_Witness ==
  /\ last.op = "launch_n"
  /\ last.f.size > 256
  /\ Submits(last) # {}
  /\ \A i \in Submits(last) :
       /\ last.effects[i].error = "none"
       /\ last.effects[i].entry = "launch_closure_by_pointer"
       /\ last.effects[i].block
            # max_blocksize_with_highest_occupancy(dev, "launch_closure_by_value", 0)

-----------------------------------------------------------------------------
(* Properties of the occupancy queries (checked under OccSpec) *)

\* ceil(n / block_size) over the unbounded integers
CeilDiv(n, block_size) == (n + (block_size - 1)) \div block_size

MaxBlocksOf(q) ==
  max_active_blocks(dev, get_launch_function(q.size), q.block_size, q.smem)

\* C5 (as claimed): num_blocks_with_maximal_occupancy(n, block_size, 0) covers
\* n unless it returns the occupancy ceiling.
C5_CoverageOrCeiling ==
  (query.op = "num_blocks" /\ query.done /\ query.smem = 0) =>
    \/ query.result * query.block_size >= query.n
    \/ query.result = MaxBlocksOf(query)

C7_ExactCeilingClamp ==
  (query.op = "num_blocks" /\ query.done) =>
    query.result = Min2(MaxBlocksOf(query), CeilDiv(query.n, query.block_size))

\* C15: for every device and kernel footprint,
\* block_size_with_maximal_occupancy returns a positive multiple of the
\* device's scheduling granularity that does not exceed the device's maximum
\* number of threads per block.
C15_BlockSizeIsValid ==
  (query.op = "block_size" /\ query.done) =>
    /\ query.result >= 1
    /\ query.result % dev.warp = 0
    /\ query.result <= dev.maxThreadsPerBlock

\* a kernel whose footprint lets at most one block be resident per
\* multiprocessor at the block size returned
C15_Witness ==
  /\ query.op = "block_size"
  /\ query.done
  /\ blocks_per_mp(dev, get_launch_function(query.size), query.result,
                   query.smem * query.result) <= 1

\* C19: num_blocks_with_maximal_occupancy never returns more than
\* max_active_blocks(block_size, smem), whatever the widths of n and
\* block_size, and its result is the clamped value itself: the final
\* conversion to size_t changes nothing.
C19_ResultWithinMaxActiveBlocks ==
  (query.op = "num_blocks" /\ query.done) =>
    LET wl  == Max2(query.wn, query.wb)
        sum == ToWidth(query.n + (query.block_size - 1), wl)
    IN  /\ query.result <= MaxBlocksOf(query)
        /\ query.result = Min2(ToWidth(MaxBlocksOf(query), wl),
                               sum \div query.block_size)

C19_Witness ==
  /\ query.op = "num_blocks"
  /\ query.done
  /\ query.wn # query.wb
  /\ MaxBlocksOf(query) >= 1
  /\ query.result = MaxBlocksOf(query)
  /\ CeilDiv(query.n, query.block_size) > MaxBlocksOf(query)

====
